---- MODULE Spec2Model ----
(***************************************************************************)
(* VaultIndex (cli/src/vaults.rs): a registry of vault names kept in one   *)
(* file, "index.vuoto": a 12-byte header (magic, little-endian version)    *)
(* followed by 16-byte zero-padded records, and a Vec<String> in memory.   *)
(* The file is modelled byte by byte (a sequence of 0..255), offsets are   *)
(* the 0-based offsets of the code.                                         *)
(***************************************************************************)
EXTENDS Integers, Sequences, FiniteSets, TLC

VARIABLES
    exists,    \* the index file exists in the directory
    file,      \* the bytes of the file as the process reads and writes them
    stable,    \* the bytes that are on stable storage (what a crash leaves)
    sess,      \* "closed" | "open": whether a VaultIndex value is alive
    vaults,    \* VaultIndex.vaults, the in-memory Vec<String>
    cursor,    \* the position of VaultIndex.file
    last       \* the last call: what it was, what it returned, where it wrote

vars == <<exists, file, stable, sess, vaults, cursor, last>>

(***************************************************************************)
(* Constants of the program.                                                *)
(***************************************************************************)
RECORD_SIZE == 16

MAGIC == <<86, 85, 79, 84, 79, 73, 68, 88>>

VERSION == 1

HEADER_SIZE == Len(MAGIC) + 4

(***************************************************************************)
(* Bounds of the model.                                                     *)
(***************************************************************************)
\* add is called only while the record area stays within this many slots
MaxSlots == 3

Min(a, b) == IF a <= b THEN a ELSE b

Zeros(n) == [i \in 1..n |-> 0]

Rep(bytes, n) == [i \in 1..(n * Len(bytes)) |-> bytes[((i - 1) % Len(bytes)) + 1]]

Range(s) == {s[i] : i \in 1..Len(s)}

\* u32::to_le_bytes
ToLeBytes(v) ==
    <<v % 256, (v \div 256) % 256, (v \div 65536) % 256, (v \div 16777216) % 256>>

\* u32::from_le_bytes
FromLeBytes(b) == b[1] + 256 * b[2] + 65536 * b[3] + 16777216 * b[4]

(***************************************************************************)
(* The file: reads and writes at an offset.                                 *)
(***************************************************************************)
\* the n bytes of f from offset off
Bytes(f, off, n) == SubSeq(f, off + 1, off + n)

\* File::read_exact of one record at off succeeds iff the bytes are there
ReadExactOk(f, off) == off + RECORD_SIZE <= Len(f)

\* File::read at off: the number of bytes a read into a record buffer returns
ReadLen(f, off) == IF off >= Len(f) THEN 0 ELSE Min(RECORD_SIZE, Len(f) - off)

\* File::write_all of bytes at offset pos (a write past the end extends the file)
WriteAll(f, pos, bytes) ==
    LET pre  == IF pos <= Len(f) THEN SubSeq(f, 1, pos) ELSE f \o Zeros(pos - Len(f))
        post == SubSeq(f, pos + Len(bytes) + 1, Len(f))
    IN  pre \o bytes \o post

\* File::flush and File::sync_data: the content reaches stable storage
SyncData(durable, content) == content

(***************************************************************************)
(* The record codec.                                                        *)
(***************************************************************************)
AllZero(buf) == \A i \in 1..Len(buf) : buf[i] = 0

\* a position that falls back to the last index, not to the width
NulPositionShort(buf) ==
    IF \E i \in 1..Len(buf) : buf[i] = 0
    THEN (CHOOSE i \in 1..Len(buf) : buf[i] = 0 /\ \A j \in 1..(i - 1) : buf[j] # 0) - 1
    ELSE RECORD_SIZE - 1

\* buf.iter().position(|&b| b == 0).unwrap_or(RECORD_SIZE)
NulPosition(buf) ==
    IF \E i \in 1..Len(buf) : buf[i] = 0
    THEN (CHOOSE i \in 1..Len(buf) : buf[i] = 0 /\ \A j \in 1..(i - 1) : buf[j] # 0) - 1
    ELSE RECORD_SIZE

\* &buf[..len]: the prefix of the record up to its first NUL
Decode(buf) == SubSeq(buf, 1, NulPosition(buf))

\* record[..bytes.len()].copy_from_slice(bytes) into [0u8; RECORD_SIZE]
Encode(name) == name \o Zeros(RECORD_SIZE - Len(name))

IsCont(b) == b >= 128 /\ b <= 191

\* std::str::from_utf8(s).is_ok(), s read from its i-th byte on
RECURSIVE Utf8From(_, _)
Utf8From(s, i) ==
    IF i > Len(s) THEN TRUE
    ELSE LET b == s[i]
             c(k) == i + k <= Len(s) /\ IsCont(s[i + k])
             n(k, lo, hi) == i + k <= Len(s) /\ s[i + k] >= lo /\ s[i + k] <= hi
         IN  IF b < 128 THEN Utf8From(s, i + 1)
             ELSE IF b >= 194 /\ b <= 223 THEN c(1) /\ Utf8From(s, i + 2)
             ELSE IF b = 224 THEN n(1, 160, 191) /\ c(2) /\ Utf8From(s, i + 3)
             ELSE IF b = 237 THEN n(1, 128, 159) /\ c(2) /\ Utf8From(s, i + 3)
             ELSE IF b >= 225 /\ b <= 239 THEN c(1) /\ c(2) /\ Utf8From(s, i + 3)
             ELSE IF b = 240 THEN n(1, 144, 191) /\ c(2) /\ c(3) /\ Utf8From(s, i + 4)
             ELSE IF b >= 241 /\ b <= 243 THEN c(1) /\ c(2) /\ c(3) /\ Utf8From(s, i + 4)
             ELSE IF b = 244 THEN n(1, 128, 143) /\ c(2) /\ c(3) /\ Utf8From(s, i + 4)
             ELSE FALSE

Utf8Valid(s) == Utf8From(s, 1)

(***************************************************************************)
(* open                                                                     *)
(***************************************************************************)
\* read_file: OpenOptions read, write, create: an absent file is created empty
ReadFile(ex, f) == IF ex THEN f ELSE <<>>

\* a header check that does not look at the version
CheckHeaderMagicOnly(f) ==
    /\ Len(f) >= HEADER_SIZE
    /\ Bytes(f, 0, Len(MAGIC)) = MAGIC

\* a header check that accepts no header
CheckHeaderNever(f) == FALSE

\* check_header: read_exact of the header, the magic, the version
CheckHeader(f) ==
    /\ Len(f) >= HEADER_SIZE
    /\ Bytes(f, 0, Len(MAGIC)) = MAGIC
    /\ FromLeBytes(Bytes(f, Len(MAGIC), 4)) = VERSION

\* init_file: set_len(0), write the magic and the version
InitFile(f) == MAGIC \o ToLeBytes(VERSION)

\* a scan loop that takes a short read for an error
RECURSIVE ScanOpenStrict(_, _, _)
ScanOpenStrict(f, off, acc) ==
    LET n   == ReadLen(f, off)
        buf == Bytes(f, off, n)
    IN  IF n = 0 THEN [ok |-> TRUE, names |-> acc]
        ELSE IF n < RECORD_SIZE THEN [ok |-> FALSE, names |-> <<>>]
        ELSE IF AllZero(buf) THEN ScanOpenStrict(f, off + n, acc)
        ELSE IF ~Utf8Valid(Decode(buf)) THEN [ok |-> FALSE, names |-> <<>>]
        ELSE ScanOpenStrict(f, off + n, Append(acc, Decode(buf)))

\* a scan loop that ends at the first empty slot
RECURSIVE ScanOpenUntilEmpty(_, _, _)
ScanOpenUntilEmpty(f, off, acc) ==
    LET n   == ReadLen(f, off)
        buf == Bytes(f, off, n)
    IN  IF n = 0 THEN [ok |-> TRUE, names |-> acc]
        ELSE IF n < RECORD_SIZE THEN [ok |-> TRUE, names |-> acc]
        ELSE IF AllZero(buf) THEN [ok |-> TRUE, names |-> acc]
        ELSE IF ~Utf8Valid(Decode(buf)) THEN [ok |-> FALSE, names |-> <<>>]
        ELSE ScanOpenUntilEmpty(f, off + n, Append(acc, Decode(buf)))

\* the scan loop of open from offset off, names pushed so far in acc
RECURSIVE ScanOpen(_, _, _)
ScanOpen(f, off, acc) ==
    LET n   == ReadLen(f, off)
        buf == Bytes(f, off, n)
    IN  IF n = 0 THEN [ok |-> TRUE, names |-> acc]
        ELSE IF n < RECORD_SIZE THEN [ok |-> TRUE, names |-> acc]
        ELSE IF AllZero(buf) THEN ScanOpen(f, off + n, acc)
        ELSE IF ~Utf8Valid(Decode(buf)) THEN [ok |-> FALSE, names |-> <<>>]
        ELSE ScanOpen(f, off + n, Append(acc, Decode(buf)))

\* VaultIndex::open as a function of the directory's file
OpenCall(ex, f) ==
    LET f0     == ReadFile(ex, f)
        reinit == ~CheckHeader(f0)
        f1     == IF reinit THEN InitFile(f0) ELSE f0
        scan   == ScanOpen(f1, HEADER_SIZE, <<>>)
    IN  [ok     |-> scan.ok,
         names  |-> scan.names,
         file   |-> f1,
         wrote  |-> IF reinit THEN {0} ELSE {},
         cursor |-> Len(f1)]

(***************************************************************************)
(* add                                                                      *)
(***************************************************************************)
\* calculate_offset_for_slot
CalculateOffsetForSlot(slot) == HEADER_SIZE + slot * RECORD_SIZE

\* input checks that count characters (leading bytes), not bytes
InvalidInputChars(name) ==
    \/ Len(name) = 0
    \/ Cardinality({i \in 1..Len(name) : name[i] < 128 \/ name[i] >= 192}) > RECORD_SIZE
    \/ \E i \in 1..Len(name) : name[i] = 0

\* input checks that look at the length only
InvalidInputTooLong(name) == Len(name) > RECORD_SIZE

\* the three input checks of add, in the order of the code
InvalidInput(name) ==
    \/ Len(name) = 0
    \/ Len(name) > RECORD_SIZE
    \/ \E i \in 1..Len(name) : name[i] = 0

\* a membership test that never finds the name
PresentNever(vs, name) == FALSE

\* a membership test that finds every name
PresentAlways(vs, name) == TRUE

\* self.vaults.iter().any(|v| v == name)
Present(vs, name) == \E i \in 1..Len(vs) : vs[i] = name

\* a scan that never finds an empty slot
FindEmptySlotNone(f, off, idx) == {}

\* the scan loop of add: Some(idx) of the first all-zero record, None at EOF
RECURSIVE FindEmptySlot(_, _, _)
FindEmptySlot(f, off, idx) ==
    IF ~ReadExactOk(f, off) THEN {}
    ELSE IF AllZero(Bytes(f, off, RECORD_SIZE)) THEN {idx}
    ELSE FindEmptySlot(f, off + RECORD_SIZE, idx + 1)

\* the seek before the write of add: the slot's offset, or SeekFrom::End(0)
AddPosition(f, slot) ==
    IF slot # {} THEN CalculateOffsetForSlot(CHOOSE k \in slot : TRUE) ELSE Len(f)

\* VaultIndex::add as a function of the session and the file
AddCall(vs, f, cur, name) ==
    IF InvalidInput(name)
    THEN [res |-> "invalid_input", vaults |-> vs, file |-> f, cursor |-> cur,
          wrote |-> {}, slot |-> {}]
    ELSE IF Present(vs, name)
    THEN [res |-> "ok", vaults |-> vs, file |-> f, cursor |-> cur,
          wrote |-> {}, slot |-> {}]
    ELSE LET slot == FindEmptySlot(f, HEADER_SIZE, 0)
             pos  == AddPosition(f, slot)
             f1   == WriteAll(f, pos, Encode(name))
         IN  [res |-> "ok", vaults |-> Append(vs, name), file |-> f1,
              cursor |-> Len(f1), wrote |-> {pos}, slot |-> slot]

(***************************************************************************)
(* remove                                                                   *)
(***************************************************************************)
\* a scan that takes the first occupied slot for the record of name
RECURSIVE FindRecordAny(_, _, _, _)
FindRecordAny(f, off, idx, name) ==
    IF ~ReadExactOk(f, off) THEN [st |-> "eof", idx |-> idx, cursor |-> Len(f)]
    ELSE LET buf == Bytes(f, off, RECORD_SIZE)
         IN  IF AllZero(buf) THEN FindRecordAny(f, off + RECORD_SIZE, idx + 1, name)
             ELSE IF ~Utf8Valid(Decode(buf))
             THEN [st |-> "invalid", idx |-> idx, cursor |-> off + RECORD_SIZE]
             ELSE [st |-> "found", idx |-> idx, cursor |-> off + RECORD_SIZE]

\* the scan loop of remove: the first record that decodes to name
RECURSIVE FindRecord(_, _, _, _)
FindRecord(f, off, idx, name) ==
    IF ~ReadExactOk(f, off) THEN [st |-> "eof", idx |-> idx, cursor |-> Len(f)]
    ELSE LET buf == Bytes(f, off, RECORD_SIZE)
         IN  IF AllZero(buf) THEN FindRecord(f, off + RECORD_SIZE, idx + 1, name)
             ELSE IF ~Utf8Valid(Decode(buf))
             THEN [st |-> "invalid", idx |-> idx, cursor |-> off + RECORD_SIZE]
             ELSE IF Decode(buf) = name
             THEN [st |-> "found", idx |-> idx, cursor |-> off + RECORD_SIZE]
             ELSE FindRecord(f, off + RECORD_SIZE, idx + 1, name)

\* a removal of every entry equal to name
RemoveEvery(vs, name) == SelectSeq(vs, LAMBDA v : v # name)

\* a remove that forgets the in-memory list
RemoveFirstKept(vs, name) == vs

\* self.vaults.remove(pos) for the position of the first entry equal to name
RemoveFirst(vs, name) ==
    IF ~\E i \in 1..Len(vs) : vs[i] = name THEN vs
    ELSE LET pos == CHOOSE i \in 1..Len(vs) :
                        vs[i] = name /\ \A j \in 1..(i - 1) : vs[j] # name
         IN  SubSeq(vs, 1, pos - 1) \o SubSeq(vs, pos + 1, Len(vs))

\* VaultIndex::remove as a function of the session and the file
RemoveCall(vs, f, cur, name) ==
    IF ~Present(vs, name)
    THEN [res |-> "false", vaults |-> vs, file |-> f, cursor |-> cur,
          wrote |-> {}, slot |-> {}]
    ELSE LET scan == FindRecord(f, HEADER_SIZE, 0, name)
         IN  IF scan.st = "invalid"
             THEN [res |-> "invalid_data", vaults |-> vs, file |-> f,
                   cursor |-> scan.cursor, wrote |-> {}, slot |-> {}]
             ELSE IF scan.st = "eof"
             THEN [res |-> "true", vaults |-> RemoveFirst(vs, name), file |-> f,
                   cursor |-> scan.cursor, wrote |-> {}, slot |-> {}]
             ELSE LET pos == CalculateOffsetForSlot(scan.idx)
                      f1  == WriteAll(f, pos, Zeros(RECORD_SIZE))
                  IN  [res |-> "true", vaults |-> RemoveFirst(vs, name), file |-> f1,
                       cursor |-> Len(f1), wrote |-> {pos}, slot |-> {scan.idx}]

(***************************************************************************)
(* The names the caller passes, and the files open may find.                *)
(***************************************************************************)
NameA == <<97>>

NameB == <<98>>

NameC == <<99>>

\* eight times U+00E9: 8 characters, 16 bytes, no padding in its record
NameWide == Rep(<<195, 169>>, 8)

NameEmpty == <<>>

\* nine times U+00E9: 9 characters, 18 bytes
NameLong == Rep(<<195, 169>>, 9)

NameNul == <<97, 0, 98>>

ValidNames == {NameA, NameB, NameC, NameWide}

Names == ValidNames \cup {NameEmpty, NameLong, NameNul}

Header == MAGIC \o ToLeBytes(VERSION)

\* "INVALID!"
BadMagic == <<73, 78, 86, 65, 76, 73, 68, 33>>

Fragment == <<1, 2, 3, 4, 5>>

ZeroFragment == <<0, 0, 0>>

InitFiles ==
    { <<>>,
      SubSeq(MAGIC, 1, 5),
      BadMagic \o ToLeBytes(VERSION) \o Encode(NameA),
      MAGIC \o ToLeBytes(999) \o Encode(NameA),
      Header,
      Header \o Encode(NameA) \o Encode(NameB),
      Header \o Zeros(RECORD_SIZE) \o Encode(NameA),
      Header \o Encode(NameA) \o Fragment,
      Header \o ZeroFragment,
      Header \o Encode(NameA) \o Encode(NameA),
      Header \o Encode(NameA) \o Encode(<<255>>) }

(***************************************************************************)
(* The state machine: one session at a time on one directory.               *)
(***************************************************************************)
\* a call, what it returned, and the I/O step that failed in it ("none": no failure)
CallF(op, name, res, wrote, slot, fail) ==
    [op |-> op, name |-> name, res |-> res, wrote |-> wrote, slot |-> slot,
     fail |-> fail]

Call(op, name, res, wrote, slot) == CallF(op, name, res, wrote, slot, "none")

Init ==
    /\ exists \in BOOLEAN
    /\ file \in InitFiles
    /\ exists = FALSE => file = <<>>
    /\ stable = file
    /\ sess = "closed"
    /\ vaults = <<>>
    /\ cursor = 0
    /\ last = Call("none", <<>>, "ok", {}, {})

Open ==
    /\ sess = "closed"
    /\ LET r == OpenCall(exists, file)
       IN  /\ exists' = TRUE
           /\ file' = r.file
           /\ stable' = IF r.wrote # {} THEN SyncData(stable, r.file) ELSE stable
           /\ sess' = IF r.ok THEN "open" ELSE "closed"
           /\ vaults' = r.names
           /\ cursor' = IF r.ok THEN r.cursor ELSE 0
           /\ last' = Call("open", <<>>, IF r.ok THEN "ok" ELSE "invalid_data",
                           r.wrote, {})

Add(name) ==
    /\ sess = "open"
    /\ LET r == AddCall(vaults, file, cursor, name)
       IN  /\ Len(r.file) - HEADER_SIZE <= MaxSlots * RECORD_SIZE
           /\ file' = r.file
           /\ stable' = IF r.wrote # {} THEN SyncData(stable, r.file) ELSE stable
           /\ vaults' = r.vaults
           /\ cursor' = r.cursor
           /\ last' = Call("add", name, r.res, r.wrote, r.slot)
    /\ UNCHANGED <<exists, sess>>

Remove(name) ==
    /\ sess = "open"
    /\ LET r == RemoveCall(vaults, file, cursor, name)
       IN  /\ file' = r.file
           /\ stable' = IF r.wrote # {} THEN SyncData(stable, r.file) ELSE stable
           /\ vaults' = r.vaults
           /\ cursor' = r.cursor
           /\ last' = Call("remove", name, r.res, r.wrote, r.slot)
    /\ UNCHANGED <<exists, sess>>

\* the VaultIndex value is dropped: the file is closed
Drop ==
    /\ sess = "open"
    /\ sess' = "closed"
    /\ vaults' = <<>>
    /\ cursor' = 0
    /\ last' = Call("drop", <<>>, "ok", {}, {})
    /\ UNCHANGED <<exists, file, stable>>

\* the machine stops: what is not on stable storage is lost
Crash ==
    /\ sess = "open"
    /\ sess' = "closed"
    /\ file' = stable
    /\ vaults' = <<>>
    /\ cursor' = 0
    /\ last' = Call("crash", <<>>, "ok", {}, {})
    /\ UNCHANGED <<exists, stable>>

Next ==
    \/ Open
    \/ \E name \in Names : Add(name)
    \/ \E name \in Names : Remove(name)
    \/ Drop
    \/ Crash

Spec == Init /\ [][Next]_vars

(***************************************************************************)
(* What the file holds, read slot by slot from the layout of the format:    *)
(* slot k is the 16 bytes at 12 + 16 * k.                                   *)
(***************************************************************************)
SlotCount(f) == (Len(f) - 12) \div 16

Slot(f, k) == SubSeq(f, 12 + 16 * k + 1, 12 + 16 * k + 16)

RECURSIVE OccupiedFrom(_, _)
OccupiedFrom(f, k) ==
    IF k >= SlotCount(f) THEN <<>>
    ELSE IF \A i \in 1..16 : Slot(f, k)[i] = 0 THEN OccupiedFrom(f, k + 1)
    ELSE <<Decode(Slot(f, k))>> \o OccupiedFrom(f, k + 1)

\* the names of the occupied slots, in slot order
OccupiedNames(f) == OccupiedFrom(f, 0)

In(s, x) == x \in Range(s)

Count(s, x) == Cardinality({i \in 1..Len(s) : s[i] = x})

SameBag(s, t) == \A x \in Range(s) \cup Range(t) : Count(s, x) = Count(t, x)

\* the step is a call of add(name), of remove(name), of open
AddStep(name) == last'.op = "add" /\ last'.name = name

RemoveStep(name) == last'.op = "remove" /\ last'.name = name

OpenStep == last'.op = "open"

\* what a fresh open of the directory would return now
Reopen == OpenCall(TRUE, file)

(***************************************************************************)
(* C1. Durability round trip: once add(name) has returned success for a     *)
(* valid name, vaults() contains name, and a fresh open of the same         *)
(* directory succeeds and lists name.                                       *)
(***************************************************************************)
C1_AddedNameSurvivesReopen ==
    (last.op = "add" /\ last.res = "ok" /\ last.name \in ValidNames) =>
        /\ In(vaults, last.name)
        /\ Reopen.ok
        /\ In(Reopen.names, last.name)

(***************************************************************************)
(* C2. Memory and disk agree: in an open session vaults() holds exactly the *)
(* names of the occupied slots of the file, with the same multiplicities,   *)
(* and a fresh open yields the same names and the same count.               *)
(***************************************************************************)
C2_MemoryMatchesDisk ==
    sess = "open" =>
        /\ SameBag(vaults, OccupiedNames(file))
        /\ Reopen.ok
        /\ SameBag(vaults, Reopen.names)
        /\ Len(vaults) = Len(Reopen.names)

C4_AddIsIdempotent ==
    [][\A name \in ValidNames :
        AddStep(name) =>
            /\ In(vaults, name) =>
                   /\ last'.res = "ok"
                   /\ last'.wrote = {}
                   /\ vaults' = vaults
                   /\ file' = file
                   /\ stable' = stable
            /\ last'.res = "ok" =>
                   LET again == AddCall(vaults', file', cursor', name)
                   IN  /\ again.res = "ok"
                       /\ again.vaults = vaults'
                       /\ again.file = file'
                       /\ again.wrote = {}]_vars

\* add of a name that is already listed has returned success without a write
C4_Witness ==
    /\ last.op = "add"
    /\ last.res = "ok"
    /\ last.wrote = {}
    /\ Count(vaults, last.name) = 1
    /\ Count(OccupiedNames(file), last.name) = 1

EmptySlot(f, k) == \A i \in 1..16 : Slot(f, k)[i] = 0

EmptySlots(f) == {k \in 0..(SlotCount(f) - 1) : EmptySlot(f, k)}

\* the 12 bytes of a header of the current version
CurrentHeader == <<86, 85, 79, 84, 79, 73, 68, 88, 1, 0, 0, 0>>

HeaderValid(f) == Len(f) >= 12 /\ SubSeq(f, 1, 12) = CurrentHeader

(***************************************************************************)
(* C6. Slot reuse: add of a new valid name writes its zero-padded record    *)
(* into the lowest all-zero slot when the file has one, the file's length   *)
(* and every other byte unchanged, and appends the 16 bytes at the end of   *)
(* the file only when no slot is empty; the name goes to the end of         *)
(* vaults(). So add(c) on the file [empty, b] left by add(a), add(b),       *)
(* remove(a) gives the file [c, b] of two slots and vaults() = [b, c].      *)
(***************************************************************************)
C6_LowestEmptySlotReused ==
    [][\A name \in ValidNames :
        (AddStep(name) /\ ~In(vaults, name)) =>
            /\ last'.res = "ok"
            /\ vaults' = Append(vaults, name)
            /\ IF EmptySlots(file) # {}
               THEN LET k == CHOOSE k \in EmptySlots(file) :
                                 \A j \in EmptySlots(file) : k <= j
                    IN  /\ Len(file') = Len(file)
                        /\ Slot(file', k) = name \o [i \in 1..(16 - Len(name)) |-> 0]
                        /\ \A i \in 1..Len(file) :
                               (i <= 12 + 16 * k \/ i > 12 + 16 * k + 16)
                                   => file'[i] = file[i]
                        /\ last'.wrote = {12 + 16 * k}
               ELSE /\ file' = file \o name \o [i \in 1..(16 - Len(name)) |-> 0]
                    /\ last'.wrote = {Len(file)}
            /\ (file = CurrentHeader \o Zeros(16) \o Encode(NameB) /\ name = NameC) =>
                   /\ file' = CurrentHeader \o Encode(NameC) \o Encode(NameB)
                   /\ SlotCount(file') = 2]_vars

\* add(c) has taken the slot that a vacated, before b's
C6_Witness ==
    /\ last = Call("add", NameC, "ok", {12}, {0})
    /\ file = CurrentHeader \o Encode(NameC) \o Encode(NameB)
    /\ vaults = <<NameB, NameC>>

(***************************************************************************)
(* C7. Header recovery: open of a directory whose index file is absent,     *)
(* empty, shorter than 12 bytes, of another magic or of another version     *)
(* succeeds with an empty list and leaves a file of exactly the 12 bytes of *)
(* magic and current version, on stable storage; the records of the old     *)
(* file are gone.                                                           *)
(***************************************************************************)
C7_BadHeaderReinitialised ==
    [][(OpenStep /\ (~exists \/ ~HeaderValid(file))) =>
            /\ last'.res = "ok"
            /\ sess' = "open"
            /\ vaults' = <<>>
            /\ exists'
            /\ file' = CurrentHeader
            /\ stable' = CurrentHeader]_vars

\* an open has rewritten the header and the session is open on an empty list
C7_Witness ==
    /\ last = Call("open", <<>>, "ok", {0}, {})
    /\ sess = "open"
    /\ file = CurrentHeader
    /\ vaults = <<>>

(***************************************************************************)
(* C8. Trailing fragment: open of a file with a valid header whose record   *)
(* area ends in 1 to 15 bytes after the last full record leaves the file as *)
(* it is and returns what it returns for the file without the fragment; it  *)
(* succeeds when every occupied full record is UTF-8, and its list is then  *)
(* exactly the names of the occupied full records, in order.                *)
(***************************************************************************)
C8_FragmentIgnored ==
    [][(OpenStep /\ exists /\ HeaderValid(file) /\ (Len(file) - 12) % 16 # 0) =>
            LET whole == SubSeq(file, 1, 12 + 16 * SlotCount(file))
                wr    == OpenCall(TRUE, whole)
            IN  /\ file' = file
                /\ last'.wrote = {}
                /\ last'.res = IF wr.ok THEN "ok" ELSE "invalid_data"
                /\ vaults' = wr.names
                /\ (\A k \in 0..(SlotCount(file) - 1) : Utf8Valid(Decode(Slot(file, k))))
                       => /\ last'.res = "ok"
                          /\ sess' = "open"
                          /\ vaults' = OccupiedNames(file)
                          /\ cursor' = Len(file)]_vars

\* an open has succeeded on a file that ends in a fragment after a record
C8_Witness ==
    /\ last.op = "open"
    /\ last.res = "ok"
    /\ sess = "open"
    /\ (Len(file) - 12) % 16 # 0
    /\ vaults = <<NameA>>
    /\ SlotCount(file) = 1

(***************************************************************************)
(* C9. Offset alignment: every record that add or remove writes starts at   *)
(* 12 + 16 * k for a slot index k >= 0, and the record of an added name is  *)
(* one whole slot of the file.                                              *)
(***************************************************************************)
C9_WritesAreSlotAligned ==
    (last.op \in {"add", "remove"} /\ last.wrote # {}) =>
        /\ \A p \in last.wrote : p >= 12 /\ (p - 12) % 16 = 0
        /\ last.op = "add" =>
               \E k \in 0..(SlotCount(file) - 1) : Decode(Slot(file, k)) = last.name

(***************************************************************************)
(* C10. Sync before return: when add or remove has changed the file and     *)
(* returned success, a crash right after the return loses nothing of it:    *)
(* the open after the crash succeeds and lists the added name, and does not *)
(* list a removed name that is no longer in vaults().                       *)
(***************************************************************************)
C10_ReturnedWriteSurvivesCrash ==
    LET r == OpenCall(TRUE, stable)
    IN  /\ (last.op = "add" /\ last.res = "ok" /\ last.wrote # {}) =>
               (r.ok /\ In(r.names, last.name))
        /\ (last.op = "remove" /\ last.res = "true" /\ last.wrote # {}
                /\ ~In(vaults, last.name)) =>
               (r.ok /\ ~In(r.names, last.name))

(***************************************************************************)
(* The record codec on many names: one session on a fresh index that holds  *)
(* one name at a time, added, reopened and removed.                         *)
(***************************************************************************)
\* names of 1 to 16 bytes: ASCII, 2-, 3- and 4-byte characters, mixed
CodecNames ==
    {Rep(<<97>>, n) : n \in 1..16}
        \cup {Rep(<<195, 169>>, n) : n \in 1..8}
        \cup {Rep(<<226, 130, 172>>, n) : n \in 1..5}
        \cup {Rep(<<240, 159, 148, 144>>, n) : n \in 1..4}
        \cup {<<98>> \o Rep(<<195, 169>>, n) : n \in 1..7}
        \cup {<<240, 159, 148, 144>> \o Rep(<<97>>, n) : n \in 1..12}

CodecInit ==
    /\ exists = TRUE
    /\ file = Header
    /\ stable = Header
    /\ sess = "open"
    /\ vaults = <<>>
    /\ cursor = Len(Header)
    /\ last = Call("open", <<>>, "ok", {}, {})

CodecNext ==
    \/ \E name \in CodecNames : vaults = <<>> /\ Add(name)
    \/ \E name \in CodecNames : Present(vaults, name) /\ Remove(name)
    \/ Drop
    \/ Open

SpecCodec == CodecInit /\ [][CodecNext]_vars

\* name followed by zero bytes up to 16 bytes
Padded(name) == name \o [i \in 1..(16 - Len(name)) |-> 0]

(***************************************************************************)
(* C11. Record codec round trip: for every valid name of 1 to 16 bytes      *)
(* (multi-byte names and names that fill the record included) the record    *)
(* add writes is the name zero-padded to 16 bytes, decoding it gives the    *)
(* name back, no other valid name has the same record, a reopen lists       *)
(* exactly that name, and remove(name) finds and clears its record.         *)
(***************************************************************************)
C11_NamesRoundTrip ==
    [][\A name \in CodecNames :
        /\ (AddStep(name) /\ vaults = <<>>) =>
               /\ last'.res = "ok"
               /\ vaults' = <<name>>
               /\ Slot(file', 0) = Padded(name)
               /\ Decode(Slot(file', 0)) = name
               /\ Utf8Valid(Decode(Slot(file', 0)))
               /\ \A other \in CodecNames : Encode(other) = Slot(file', 0) => other = name
        /\ (OpenStep /\ SlotCount(file) = 1 /\ Slot(file, 0) = Padded(name)) =>
               /\ last'.res = "ok"
               /\ vaults' = <<name>>
        /\ (RemoveStep(name) /\ vaults = <<name>>) =>
               /\ last'.res = "true"
               /\ vaults' = <<>>
               /\ file' = CurrentHeader \o [i \in 1..16 |-> 0]]_vars

\* a 16-byte name of four 4-byte characters has been listed by a reopen
C11_Witness ==
    /\ last.op = "open"
    /\ last.res = "ok"
    /\ vaults = <<Rep(<<240, 159, 148, 144>>, 4)>>
    /\ Len(vaults[1]) = 16
    /\ Slot(file, 0) = vaults[1]

(***************************************************************************)
(* C12. remove(name) for a name that vaults() does not contain returns      *)
(* false and changes nothing: the list, every byte of the file, its durable *)
(* bytes and the cursor are as before, and nothing is written.              *)
(***************************************************************************)
C12_RemoveAbsentIsNoOp ==
    [][\A name \in Names :
        (RemoveStep(name) /\ ~In(vaults, name)) =>
            /\ last'.res = "false"
            /\ last'.wrote = {}
            /\ vaults' = vaults
            /\ file' = file
            /\ stable' = stable
            /\ cursor' = cursor]_vars

\* remove of an unlisted name has returned false in a session that has names
C12_Witness ==
    /\ last.op = "remove"
    /\ last.res = "false"
    /\ last.name = NameB
    /\ vaults = <<NameA>>
    /\ OccupiedNames(file) = <<NameA>>

(***************************************************************************)
(* The calls with a failing I/O step. A fault names the step that returns   *)
(* an error other than end-of-file (for "read": the n-th read of the scan,  *)
(* counted from 0); a step that the call never reaches does not fail. A     *)
(* failed write_all is taken to have written nothing; a failed flush or     *)
(* sync_data leaves the written bytes in the file but not on stable storage.*)
(***************************************************************************)
NoFault == [at |-> "none", n |-> 0]

Fault(at) == [at |-> at, n |-> 0]

\* the scan reads that are made to fail are the first MaxFaultRead + 1
MaxFaultRead == 1

ReadFaults == {[at |-> "read", n |-> k] : k \in 0..MaxFaultRead}

Outcome(res, vs, f, st, cur, wrote, slot, fail) ==
    [res |-> res, vaults |-> vs, file |-> f, stable |-> st, cursor |-> cur,
     wrote |-> wrote, slot |-> slot, fail |-> fail]

\* the reads of the scan that fail
BadReads(fault) == IF fault.at = "read" THEN {fault.n} ELSE {}

\* the scan loop of add, its read number idx failing for idx in bad
RECURSIVE FindEmptySlotF(_, _, _, _)
FindEmptySlotF(f, off, idx, bad) ==
    IF idx \in bad THEN [st |-> "ioerr", slot |-> {}, cursor |-> off]
    ELSE IF ~ReadExactOk(f, off) THEN [st |-> "done", slot |-> {}, cursor |-> Len(f)]
    ELSE IF AllZero(Bytes(f, off, RECORD_SIZE))
    THEN [st |-> "done", slot |-> {idx}, cursor |-> off + RECORD_SIZE]
    ELSE FindEmptySlotF(f, off + RECORD_SIZE, idx + 1, bad)

\* a push that does not wait for the I/O to succeed
PushFirst(vs, name, done) == Append(vs, name)

\* self.vaults.push(name.to_string()), the last statement before Ok(())
PushLast(vs, name, done) == IF done THEN Append(vs, name) ELSE vs

\* VaultIndex::add with a failing I/O step
AddCallF(vs, f, st, cur, name, fault) ==
    IF InvalidInput(name)
    THEN Outcome("invalid_input", vs, f, st, cur, {}, {}, "none")
    ELSE IF Present(vs, name)
    THEN Outcome("ok", vs, f, st, cur, {}, {}, "none")
    ELSE IF fault.at = "seek_start"
    THEN Outcome("io_error", PushLast(vs, name, FALSE), f, st, cur, {}, {}, fault.at)
    ELSE LET scan == FindEmptySlotF(f, HEADER_SIZE, 0, BadReads(fault))
             pos  == AddPosition(f, scan.slot)
             f1   == WriteAll(f, pos, Encode(name))
             no   == PushLast(vs, name, FALSE)
         IN  IF scan.st = "ioerr"
             THEN Outcome("io_error", no, f, st, scan.cursor, {}, {}, fault.at)
             ELSE IF fault.at = "seek_pos"
             THEN Outcome("io_error", no, f, st, scan.cursor, {}, scan.slot, fault.at)
             ELSE IF fault.at = "write"
             THEN Outcome("io_error", no, f, st, pos, {}, scan.slot, fault.at)
             ELSE IF fault.at \in {"flush", "sync"}
             THEN Outcome("io_error", no, f1, st, pos + RECORD_SIZE, {pos}, scan.slot,
                          fault.at)
             ELSE IF fault.at = "seek_end"
             THEN Outcome("io_error", no, f1, SyncData(st, f1), pos + RECORD_SIZE,
                          {pos}, scan.slot, fault.at)
             ELSE Outcome("ok", PushLast(vs, name, TRUE), f1, SyncData(st, f1),
                          Len(f1), {pos}, scan.slot, "none")

\* the scan loop of remove, its read number idx failing for idx in bad:
\* while let Ok(()) = read_exact ends the loop on any error
RECURSIVE FindRecordF(_, _, _, _, _)
FindRecordF(f, off, idx, name, bad) ==
    IF idx \in bad THEN [st |-> "eof", idx |-> idx, cursor |-> off, fail |-> "read"]
    ELSE IF ~ReadExactOk(f, off)
    THEN [st |-> "eof", idx |-> idx, cursor |-> Len(f), fail |-> "none"]
    ELSE LET buf == Bytes(f, off, RECORD_SIZE)
         IN  IF AllZero(buf) THEN FindRecordF(f, off + RECORD_SIZE, idx + 1, name, bad)
             ELSE IF ~Utf8Valid(Decode(buf))
             THEN [st |-> "invalid", idx |-> idx, cursor |-> off + RECORD_SIZE,
                   fail |-> "none"]
             ELSE IF Decode(buf) = name
             THEN [st |-> "found", idx |-> idx, cursor |-> off + RECORD_SIZE,
                   fail |-> "none"]
             ELSE FindRecordF(f, off + RECORD_SIZE, idx + 1, name, bad)

\* VaultIndex::remove with a failing I/O step
RemoveCallF(vs, f, st, cur, name, fault) ==
    IF ~Present(vs, name)
    THEN Outcome("false", vs, f, st, cur, {}, {}, "none")
    ELSE IF fault.at = "seek_start"
    THEN Outcome("io_error", vs, f, st, cur, {}, {}, fault.at)
    ELSE LET scan == FindRecordF(f, HEADER_SIZE, 0, name, BadReads(fault))
             gone == RemoveFirst(vs, name)
             pos  == CalculateOffsetForSlot(scan.idx)
             f1   == WriteAll(f, pos, Zeros(RECORD_SIZE))
         IN  IF scan.st = "invalid"
             THEN Outcome("invalid_data", vs, f, st, scan.cursor, {}, {}, "none")
             ELSE IF scan.st = "eof"
             THEN Outcome("true", gone, f, st, scan.cursor, {}, {}, scan.fail)
             ELSE IF fault.at = "seek_pos"
             THEN Outcome("io_error", gone, f, st, scan.cursor, {}, {scan.idx}, fault.at)
             ELSE IF fault.at = "write"
             THEN Outcome("io_error", gone, f, st, pos, {}, {scan.idx}, fault.at)
             ELSE IF fault.at \in {"flush", "sync"}
             THEN Outcome("io_error", gone, f1, st, pos + RECORD_SIZE, {pos},
                          {scan.idx}, fault.at)
             ELSE IF fault.at = "seek_end"
             THEN Outcome("io_error", gone, f1, SyncData(st, f1), pos + RECORD_SIZE,
                          {pos}, {scan.idx}, fault.at)
             ELSE Outcome("true", gone, f1, SyncData(st, f1), Len(f1), {pos},
                          {scan.idx}, "none")

\* the scan loop of open, its read number idx failing for idx in bad
RECURSIVE ScanOpenF(_, _, _, _, _)
ScanOpenF(f, off, acc, idx, bad) ==
    LET n   == ReadLen(f, off)
        buf == Bytes(f, off, n)
    IN  IF idx \in bad THEN [res |-> "io_error", names |-> <<>>]
        ELSE IF n = 0 THEN [res |-> "ok", names |-> acc]
        ELSE IF n < RECORD_SIZE THEN [res |-> "ok", names |-> acc]
        ELSE IF AllZero(buf) THEN ScanOpenF(f, off + n, acc, idx + 1, bad)
        ELSE IF ~Utf8Valid(Decode(buf)) THEN [res |-> "invalid_data", names |-> <<>>]
        ELSE ScanOpenF(f, off + n, Append(acc, Decode(buf)), idx + 1, bad)

OpenOutcome(res, names, ex, f, st, wrote, fail) ==
    [res |-> res, names |-> names, exists |-> ex, file |-> f, stable |-> st,
     wrote |-> wrote, fail |-> fail]

\* VaultIndex::open with a failing I/O step
OpenCallF(ex, f, st, fault) ==
    LET f0     == ReadFile(ex, f)
        reinit == ~CheckHeader(f0)
        f1     == IF reinit THEN InitFile(f0) ELSE f0
        st1    == IF reinit THEN SyncData(st, f1) ELSE st
        w      == IF reinit THEN {0} ELSE {}
        scan   == ScanOpenF(f1, HEADER_SIZE, <<>>, 0, BadReads(fault))
        Io(e, g, s, wr) == OpenOutcome("io_error", <<>>, e, g, s, wr, fault.at)
    IN  IF fault.at = "open" THEN Io(ex, f, st, {})
        ELSE IF fault.at \in {"seek_hdr", "read_hdr"} THEN Io(TRUE, f0, st, {})
        ELSE IF reinit /\ fault.at = "set_len" THEN Io(TRUE, f0, st, {})
        ELSE IF reinit /\ fault.at \in {"seek_zero", "write_magic"}
        THEN Io(TRUE, <<>>, st, {})
        ELSE IF reinit /\ fault.at = "write_version" THEN Io(TRUE, MAGIC, st, {0})
        ELSE IF reinit /\ fault.at \in {"flush", "sync"} THEN Io(TRUE, f1, st, {0})
        ELSE IF reinit /\ fault.at = "seek_rec" THEN Io(TRUE, f1, st1, {0})
        ELSE IF fault.at = "seek_scan" THEN Io(TRUE, f1, st1, w)
        ELSE IF scan.res = "io_error" THEN Io(TRUE, f1, st1, w)
        ELSE IF scan.res = "invalid_data"
        THEN OpenOutcome("invalid_data", <<>>, TRUE, f1, st1, w, "none")
        ELSE IF fault.at = "seek_end" THEN Io(TRUE, f1, st1, w)
        ELSE OpenOutcome("ok", scan.names, TRUE, f1, st1, w, "none")

\* the I/O steps of open, add and remove that can fail
OpenFaults ==
    {Fault(at) : at \in {"open", "seek_hdr", "read_hdr", "set_len", "seek_zero",
                         "write_magic", "write_version", "flush", "sync",
                         "seek_rec", "seek_scan", "seek_end"}} \cup ReadFaults

CallFaults ==
    {Fault(at) : at \in {"seek_start", "seek_pos", "write", "flush", "sync",
                         "seek_end"}} \cup ReadFaults

IoNames == {NameA, NameEmpty}

IoFiles == {<<>>, BadMagic \o Encode(NameA), Header, Header \o Encode(NameA),
            Header \o Encode(NameA) \o Encode(NameB),
            Header \o Encode(<<255>>)}

IoInit ==
    /\ exists \in BOOLEAN
    /\ file \in IoFiles
    /\ exists = FALSE => file = <<>>
    /\ stable = file
    /\ sess = "closed"
    /\ vaults = <<>>
    /\ cursor = 0
    /\ last = Call("none", <<>>, "ok", {}, {})

OpenF(fault) ==
    /\ sess = "closed"
    /\ LET r == OpenCallF(exists, file, stable, fault)
       IN  /\ exists' = r.exists
           /\ file' = r.file
           /\ stable' = r.stable
           /\ sess' = IF r.res = "ok" THEN "open" ELSE "closed"
           /\ vaults' = r.names
           /\ cursor' = IF r.res = "ok" THEN Len(r.file) ELSE 0
           /\ last' = CallF("open", <<>>, r.res, r.wrote, {}, r.fail)

AddF(name, fault) ==
    /\ sess = "open"
    /\ LET r == AddCallF(vaults, file, stable, cursor, name, fault)
       IN  /\ Len(r.file) - HEADER_SIZE <= MaxSlots * RECORD_SIZE
           /\ file' = r.file
           /\ stable' = r.stable
           /\ vaults' = r.vaults
           /\ cursor' = r.cursor
           /\ last' = CallF("add", name, r.res, r.wrote, r.slot, r.fail)
    /\ UNCHANGED <<exists, sess>>

RemoveF(name, fault) ==
    /\ sess = "open"
    /\ LET r == RemoveCallF(vaults, file, stable, cursor, name, fault)
       IN  /\ file' = r.file
           /\ stable' = r.stable
           /\ vaults' = r.vaults
           /\ cursor' = r.cursor
           /\ last' = CallF("remove", name, r.res, r.wrote, r.slot, r.fail)
    /\ UNCHANGED <<exists, sess>>

IoNext ==
    \/ \E fault \in OpenFaults \cup {NoFault} : OpenF(fault)
    \/ \E name \in IoNames, fault \in CallFaults \cup {NoFault} : AddF(name, fault)
    \/ \E name \in IoNames, fault \in CallFaults \cup {NoFault} : RemoveF(name, fault)
    \/ Drop

SpecIO == IoInit /\ [][IoNext]_vars

\* without a failing step the calls are the calls of the fault-free model
FaultFreeAgrees ==
    /\ LET r == OpenCallF(exists, file, stable, NoFault)
           q == OpenCall(exists, file)
       IN  /\ (r.res = "ok") = q.ok
           /\ r.names = q.names /\ r.file = q.file /\ r.wrote = q.wrote
    /\ \A name \in IoNames :
          LET r == AddCallF(vaults, file, stable, cursor, name, NoFault)
              q == AddCall(vaults, file, cursor, name)
          IN  /\ r.res = q.res /\ r.vaults = q.vaults /\ r.file = q.file
              /\ r.wrote = q.wrote /\ r.slot = q.slot /\ r.cursor = q.cursor
    /\ \A name \in IoNames :
          LET r == RemoveCallF(vaults, file, stable, cursor, name, NoFault)
              q == RemoveCall(vaults, file, cursor, name)
          IN  /\ r.res = q.res /\ r.vaults = q.vaults /\ r.file = q.file
              /\ r.wrote = q.wrote /\ r.slot = q.slot /\ r.cursor = q.cursor

(***************************************************************************)
(* The error value a caller receives                                        *)
(***************************************************************************)
ErrorResults == {"invalid_input", "invalid_data", "io_error"}

\* the std::io::Error built or received where the call fails: its kind, and
\* for its text the category of the message
IoError(res) ==
    [kind |-> CASE res = "invalid_input" -> "InvalidInput"
                [] res = "invalid_data"  -> "InvalidData"
                [] OTHER                 -> "Other",
     text |-> res]

\* impl From<std::io::Error> for InternalError: the variant is IO whatever the
\* kind, only the display text is kept
FromIoError(err) == [variant |-> "IO", text |-> err.text]

\* C13: (as the claim states it) the type or kind of the error a call returns
\* tells the caller its category: a rejected name, invalid data on disk and
\* an I/O failure give errors of different variants.
C13_ErrorTypeTellsCategory ==
    last.res \in ErrorResults =>
        \A other \in ErrorResults \ {last.res} :
            FromIoError(IoError(other)).variant
                # FromIoError(IoError(last.res)).variant

\* C17: (as the claim states it) a failing seek, read, write, flush or sync
\* inside open, add or remove makes the call return an error.
C17_IoFailureIsReturned ==
    last.fail # "none" => last.res = "io_error"

\* C18: add appends the name to the list only as its last step: a call of
\* add that returns an error leaves the list as it was, and a call that
\* changes the list has returned Ok after the record was written and synced
\* and the cursor was put back at the end of the file.
C18_AddMutatesMemoryLast ==
    [][\A name \in IoNames :
          AddStep(name) =>
              /\ last'.res # "ok" => vaults' = vaults
              /\ vaults' # vaults =>
                    /\ last'.res = "ok" /\ last'.fail = "none"
                    /\ vaults' = Append(vaults, name)
                    /\ \E off \in last'.wrote :
                          Bytes(stable', off, RECORD_SIZE) = Padded(name)
                    /\ cursor' = Len(file')]_vars

\* add failed at the cursor reset: the record is in the file, the name is not
\* in the list
C18_Witness ==
    /\ last.op = "add" /\ last.res = "io_error" /\ last.fail = "seek_end"
    /\ ~In(vaults, last.name)
    /\ In(OccupiedNames(file), last.name)

\* C14: (as the claim states it) during a session the list is in scan order:
\* whenever the list and the occupied slots hold the same names, the list is
\* the sequence of occupied names by ascending slot index, the list a fresh
\* open of the file produces.
C14_ListIsScanOrder ==
    (sess = "open" /\ SameBag(vaults, OccupiedNames(file))) =>
        /\ vaults = OccupiedNames(file)
        /\ vaults = Reopen.names

\* C15: (as the claim states it) during a session the file never shrinks,
\* remove keeps its length, add makes it one record longer when no slot is
\* empty and keeps its length otherwise; the slot count therefore stays at
\* the high-water mark of the names present together: an add that makes the
\* file longer leaves as many slots as names in the list.
C15_FileGrowth ==
    [][/\ (sess = "open" /\ sess' = "open") => Len(file') >= Len(file)
       /\ \A name \in Names :
             /\ RemoveStep(name) => Len(file') = Len(file)
             /\ AddStep(name) =>
                   /\ Len(file') \in {Len(file), Len(file) + 16}
                   /\ Len(file') = Len(file) + 16 =>
                         /\ EmptySlots(file) = {}
                         /\ SlotCount(file') = Len(vaults')
                   /\ (last'.wrote # {} /\ EmptySlots(file) = {}) =>
                         Len(file') = Len(file) + 16]_vars

\* the scan of remove(name) reaches the end of f without a match: every full
\* slot is empty or holds valid UTF-8 that is another name
NoSlotHolds(f, name) ==
    \A k \in 0..(SlotCount(f) - 1) :
        \/ EmptySlot(f, k)
        \/ /\ Utf8Valid(Decode(Slot(f, k)))
           /\ Decode(Slot(f, k)) # name

\* C19: remove under drift: when name is in the list and the scan of the
\* file ends without an occupied slot that decodes to name, remove returns
\* true, takes the first entry equal to name out of the list and writes
\* nothing: the file and its durable bytes are unchanged.
C19_RemoveUnderDrift ==
    [][\A name \in Names :
          (RemoveStep(name) /\ In(vaults, name) /\ NoSlotHolds(file, name)) =>
              /\ last'.res = "true"
              /\ Len(vaults') = Len(vaults) - 1
              /\ Count(vaults', name) = Count(vaults, name) - 1
              /\ \A other \in Names \ {name} :
                    Count(vaults', other) = Count(vaults, other)
              /\ file' = file
              /\ stable' = stable
              /\ last'.wrote = {}]_vars

\* remove has returned true for a listed name without writing: the file
\* holds occupied slots, none of them the name's
C19_Witness ==
    /\ last.op = "remove" /\ last.res = "true" /\ last.wrote = {}
    /\ ~In(vaults, last.name)
    /\ NoSlotHolds(file, last.name)
    /\ EmptySlots(file) # {0}
    /\ SlotCount(file) >= 1

\* C20: (as the claim states it) once remove(name) has found name in the
\* list, the entry is taken out of the list on every path by which the call
\* ends.
C20_MemoryEntryAlwaysRemoved ==
    [][\A name \in Names :
          (RemoveStep(name) /\ In(vaults, name)) =>
              Count(vaults', name) = Count(vaults, name) - 1]_vars

(***************************************************************************)
(* A crash in the middle of write_all: of the 16 bytes of the record only   *)
(* the first k reach the file, at the position add or remove had sought to, *)
(* and the process ends there; the next call is an open of that file. The   *)
(* crash is injected into an index that no earlier torn write has damaged.  *)
(***************************************************************************)
TornNames == {NameA, NameWide}

\* a valid header and whole slots, each one empty or the encoding of a name
Intact(f) ==
    /\ Len(f) >= HEADER_SIZE
    /\ CheckHeader(f)
    /\ (Len(f) - HEADER_SIZE) % RECORD_SIZE = 0
    /\ \A k \in 0..(((Len(f) - HEADER_SIZE) \div RECORD_SIZE) - 1) :
          LET buf == Bytes(f, CalculateOffsetForSlot(k), RECORD_SIZE)
          IN  AllZero(buf) \/ (Utf8Valid(Decode(buf)) /\ Encode(Decode(buf)) = buf)

TornFiles == {<<>>, Header, Header \o Encode(NameWide),
              Header \o Zeros(RECORD_SIZE) \o Encode(NameA)}

TornInit ==
    /\ exists = TRUE
    /\ file \in TornFiles
    /\ stable = file
    /\ sess = "closed"
    /\ vaults = <<>>
    /\ cursor = 0
    /\ last = Call("none", <<>>, "ok", {}, {})

\* the file after add(name) was cut after k bytes of self.file.write_all(&record)
TornAddFile(vs, f, name, k) ==
    LET slot == FindEmptySlot(f, HEADER_SIZE, 0)
        pos  == AddPosition(f, slot)
    IN  WriteAll(f, pos, SubSeq(Encode(name), 1, k))

\* the file after remove(name) was cut after k bytes of self.file.write_all(&zeros)
TornRemoveFile(vs, f, name, k) ==
    LET scan == FindRecord(f, HEADER_SIZE, 0, name)
    IN  WriteAll(f, CalculateOffsetForSlot(scan.idx), Zeros(k))

TornAdd(name, k) ==
    /\ sess = "open"
    /\ Intact(file)
    /\ ~InvalidInput(name) /\ ~Present(vaults, name)
    /\ Len(file) - HEADER_SIZE < MaxSlots * RECORD_SIZE
    /\ file' = TornAddFile(vaults, file, name, k)
    /\ stable' = file'
    /\ sess' = "closed"
    /\ vaults' = <<>>
    /\ cursor' = 0
    /\ last' = Call("torn_add", name, "crash",
                    {AddPosition(file, FindEmptySlot(file, HEADER_SIZE, 0))},
                    FindEmptySlot(file, HEADER_SIZE, 0))
    /\ UNCHANGED exists

TornRemove(name, k) ==
    /\ sess = "open"
    /\ Intact(file)
    /\ Present(vaults, name)
    /\ FindRecord(file, HEADER_SIZE, 0, name).st = "found"
    /\ file' = TornRemoveFile(vaults, file, name, k)
    /\ stable' = file'
    /\ sess' = "closed"
    /\ vaults' = <<>>
    /\ cursor' = 0
    /\ last' = Call("torn_remove", name, "crash",
                    {CalculateOffsetForSlot(FindRecord(file, HEADER_SIZE, 0, name).idx)},
                    {FindRecord(file, HEADER_SIZE, 0, name).idx})
    /\ UNCHANGED exists

TornNext ==
    \/ Open
    \/ \E name \in TornNames : Add(name)
    \/ \E name \in TornNames : Remove(name)
    \/ Drop
    \/ \E name \in TornNames, k \in 1..(RECORD_SIZE - 1) : TornAdd(name, k)
    \/ \E name \in TornNames, k \in 1..(RECORD_SIZE - 1) : TornRemove(name, k)

SpecTorn == TornInit /\ [][TornNext]_vars

\* the step is a crash inside the record write of add(name), of remove(name)
TornAddStep(name) == last'.op = "torn_add" /\ last'.name = name

TornRemoveStep(name) == last'.op = "torn_remove" /\ last'.name = name

\* C16: (as the claim states it) after a crash that left only a proper
\* prefix of the record in the file, the next open succeeds and lists either
\* what an open listed before the operation or what it lists after the
\* completed operation, and a name added after that open is listed by the
\* open that follows.
C16_TornWriteIsAtomic ==
    [][\A name \in TornNames :
          (TornAddStep(name) \/ TornRemoveStep(name)) =>
              LET before == OpenCall(TRUE, file).names
                  done   == IF TornAddStep(name)
                            THEN AddCall(vaults, file, cursor, name).file
                            ELSE RemoveCall(vaults, file, cursor, name).file
                  after  == OpenCall(TRUE, done).names
                  r      == OpenCall(TRUE, file')
              IN  /\ r.ok
                  /\ r.names \in {before, after}
                  /\ \A next \in TornNames :
                        In(OpenCall(TRUE, AddCall(r.names, r.file, r.cursor,
                                                  next).file).names, next)]_vars

\* the slots of f that are occupied and decode to name
SlotsOf(f, name) ==
    {k \in 0..(SlotCount(f) - 1) : ~EmptySlot(f, k) /\ Decode(Slot(f, k)) = name}

\* C21: first match wins: when the list holds name more than once and more
\* than one occupied slot decodes to name, remove(name) returns true, zeroes
\* the lowest of those slots and no other byte of the file, and takes the
\* first entry equal to name out of the list and no other; a list that
\* agreed with the occupied slots still agrees, and a second remove(name)
\* returns true again.
C21_FirstMatchWins ==
    [][\A name \in Names :
          (/\ RemoveStep(name)
           /\ Count(vaults, name) >= 2
           /\ Cardinality(SlotsOf(file, name)) >= 2) =>
              LET k == CHOOSE k \in SlotsOf(file, name) :
                           \A j \in SlotsOf(file, name) : k <= j
              IN  /\ last'.res = "true"
                  /\ Len(file') = Len(file)
                  /\ EmptySlot(file', k)
                  /\ \A i \in 1..Len(file) :
                        (i <= 12 + 16 * k \/ i > 12 + 16 * k + 16)
                            => file'[i] = file[i]
                  /\ SlotsOf(file', name) = SlotsOf(file, name) \ {k}
                  /\ Len(vaults') = Len(vaults) - 1
                  /\ \E p \in 1..Len(vaults) :
                        /\ vaults[p] = name
                        /\ \A j \in 1..(p - 1) : vaults[j] # name
                        /\ \A j \in 1..(p - 1) : vaults'[j] = vaults[j]
                        /\ \A j \in p..Len(vaults') : vaults'[j] = vaults[j + 1]
                  /\ SameBag(vaults, OccupiedNames(file))
                        => SameBag(vaults', OccupiedNames(file'))
                  /\ RemoveCall(vaults', file', cursor', name).res = "true"]_vars

\* one of two records of a name has been removed: the first slot is empty,
\* the second still holds the name, and the list holds it once
C21_Witness ==
    /\ last.op = "remove" /\ last.res = "true" /\ last.slot = {0}
    /\ EmptySlot(file, 0)
    /\ SlotsOf(file, last.name) = {1}
    /\ Count(vaults, last.name) = 1

\* every occupied full slot of f holds valid UTF-8 up to its first NUL
SlotsDecodable(f) ==
    \A k \in 0..(SlotCount(f) - 1) :
        EmptySlot(f, k) \/ Utf8Valid(Decode(Slot(f, k)))

\* C22: open scan: on a file with a valid header whose occupied slots hold
\* UTF-8, open succeeds and its list is the decoded names of the occupied
\* full slots in ascending slot order up to the end of the file; an empty
\* slot, wherever it lies, is skipped and does not end the scan; the cursor
\* is left at the end of the file. (A slot that is not UTF-8 makes open
\* return the invalid-data error.)
C22_OpenScan ==
    [][(OpenStep /\ exists /\ HeaderValid(file)) =>
          IF SlotsDecodable(file)
          THEN /\ last'.res = "ok"
               /\ sess' = "open"
               /\ vaults' = OccupiedNames(file)
               /\ Len(vaults') = SlotCount(file) - Cardinality(EmptySlots(file))
               /\ \A k \in 0..(SlotCount(file) - 1) :
                     ~EmptySlot(file, k) => In(vaults', Decode(Slot(file, k)))
               /\ cursor' = Len(file')
          ELSE /\ last'.res = "invalid_data"
               /\ sess' = "closed"]_vars

\* open has read a after an empty slot
C22_Witness ==
    /\ last.op = "open" /\ last.res = "ok" /\ sess = "open"
    /\ SlotCount(file) = 2
    /\ EmptySlot(file, 0) /\ ~EmptySlot(file, 1)
    /\ vaults = <<NameA>>
    /\ cursor = Len(file)

\* C25: open is non-destructive on a valid file: when the file exists and
\* its magic and version match, open writes nothing, the file and its
\* durable bytes are unchanged, and an open of the file it leaves gives the
\* same result and the same list; an open that writes or changes the file is
\* an open of a missing file or of a file with another header.
C25_OpenKeepsValidFile ==
    [][OpenStep =>
          /\ (exists /\ HeaderValid(file)) =>
                /\ file' = file
                /\ stable' = stable
                /\ last'.wrote = {}
                /\ LET again == OpenCall(exists', file')
                   IN  /\ again.ok = (last'.res = "ok")
                       /\ again.names = vaults'
                       /\ again.file = file'
                       /\ again.wrote = {}
          /\ (last'.wrote # {} \/ file' # file) =>
                /\ ~exists \/ ~HeaderValid(file)
                /\ file' = CurrentHeader]_vars

\* open has read two records and left them in the file
C25_Witness ==
    /\ last = Call("open", <<>>, "ok", {}, {})
    /\ file = CurrentHeader \o Encode(NameA) \o Encode(NameB)
    /\ stable = file
    /\ vaults = <<NameA, NameB>>

(***************************************************************************)
(* Sessions on a fresh index: the directory is empty or holds an index of   *)
(* the header only; calls of open, add, remove and drop follow in any order.*)
(***************************************************************************)
FreshInit ==
    /\ exists \in BOOLEAN
    /\ file = IF exists THEN Header ELSE <<>>
    /\ stable = file
    /\ sess = "closed"
    /\ vaults = <<>>
    /\ cursor = 0
    /\ last = Call("none", <<>>, "ok", {}, {})

SpecFresh == FreshInit /\ [][Next]_vars

\* no element of s occurs twice
NoRepeat(s) == \A i, j \in 1..Len(s) : s[i] = s[j] => i = j

\* C24: uniqueness: from a fresh index, after any calls of add and remove
\* and any number of drop/reopen cycles, no name occurs twice in the list,
\* no two occupied slots of the file decode to the same name, and neither
\* the list nor an occupied slot holds the empty name.
C24_NamesAreUnique ==
    /\ NoRepeat(vaults)
    /\ ~In(vaults, <<>>)
    /\ exists =>
          /\ NoRepeat(OccupiedNames(file))
          /\ ~In(OccupiedNames(file), <<>>)

\* three names are listed and slot 0, emptied by a remove, was filled again
\* by the last add
C24_Witness ==
    /\ last.op = "add" /\ last.res = "ok" /\ last.slot = {0}
    /\ Len(vaults) = 3
    /\ SlotCount(file) = 3
    /\ EmptySlots(file) = {}
    /\ SameBag(vaults, OccupiedNames(file))
    /\ vaults # OccupiedNames(file)

(***************************************************************************)
(* Two sessions on one index file, no lock. In this specification the       *)
(* session variables sess, vaults and cursor hold one value per session,    *)
(* the file is shared, and last holds for each session the call it is in    *)
(* the middle of, together with the names whose add has returned Ok and     *)
(* that no remove has since returned true for. A call of add or remove is   *)
(* two steps: the scan with the seek that fixes the write position, then    *)
(* the write with what follows it; steps of the two sessions interleave.    *)
(***************************************************************************)
Sessions == {"A", "B"}

RaceNames == {NameA, NameB}

RaceFiles == {Header, Header \o ZeroFragment}

Idle == [pc |-> "idle", name |-> <<>>, pos |-> 0, res |-> "none"]

Returned(res) == [pc |-> "idle", name |-> <<>>, pos |-> 0, res |-> res]

Pending(op, name, pos) == [pc |-> op, name |-> name, pos |-> pos, res |-> "none"]

RaceInit ==
    /\ exists = TRUE
    /\ file \in RaceFiles
    /\ stable = file
    /\ sess = [s \in Sessions |-> "never"]
    /\ vaults = [s \in Sessions |-> <<>>]
    /\ cursor = [s \in Sessions |-> 0]
    /\ last = [call |-> [s \in Sessions |-> Idle], acked |-> {}]

\* VaultIndex::open by session s
RaceOpen(s) ==
    /\ sess[s] \in {"never", "closed"}
    /\ LET r == OpenCall(exists, file)
       IN  /\ r.ok
           /\ file' = r.file
           /\ stable' = IF r.wrote # {} THEN SyncData(stable, r.file) ELSE stable
           /\ sess' = [sess EXCEPT ![s] = "open"]
           /\ vaults' = [vaults EXCEPT ![s] = r.names]
           /\ cursor' = [cursor EXCEPT ![s] = r.cursor]
           /\ last' = [last EXCEPT !.call[s] = Returned("ok")]
    /\ UNCHANGED exists

\* add by session s up to the seek before write_all
RaceAddScan(s, name) ==
    /\ sess[s] = "open" /\ last.call[s].pc = "idle"
    /\ IF InvalidInput(name)
       THEN /\ last' = [last EXCEPT !.call[s] = Returned("invalid_input")]
            /\ UNCHANGED cursor
       ELSE IF Present(vaults[s], name)
       THEN /\ last' = [last EXCEPT !.call[s] = Returned("ok")]
            /\ UNCHANGED cursor
       ELSE LET pos == AddPosition(file, FindEmptySlot(file, HEADER_SIZE, 0))
            IN  /\ pos + RECORD_SIZE - HEADER_SIZE <= MaxSlots * RECORD_SIZE
                /\ last' = [last EXCEPT !.call[s] = Pending("add", name, pos)]
                /\ cursor' = [cursor EXCEPT ![s] = pos]
    /\ UNCHANGED <<exists, file, stable, sess, vaults>>

\* add by session s from write_all to Ok(())
RaceAddWrite(s) ==
    /\ last.call[s].pc = "add"
    /\ LET name == last.call[s].name
           f1   == WriteAll(file, last.call[s].pos, Encode(name))
       IN  /\ file' = f1
           /\ stable' = SyncData(stable, f1)
           /\ vaults' = [vaults EXCEPT ![s] = Append(@, name)]
           /\ cursor' = [cursor EXCEPT ![s] = Len(f1)]
           /\ last' = [call  |-> [last.call EXCEPT ![s] = Returned("ok")],
                       acked |-> last.acked \cup {name}]
    /\ UNCHANGED <<exists, sess>>

\* remove by session s up to the seek before write_all, or to its return
\* when there is nothing to write
RaceRemoveScan(s, name) ==
    /\ sess[s] = "open" /\ last.call[s].pc = "idle"
    /\ IF ~Present(vaults[s], name)
       THEN /\ last' = [last EXCEPT !.call[s] = Returned("false")]
            /\ UNCHANGED <<vaults, cursor>>
       ELSE LET scan == FindRecord(file, HEADER_SIZE, 0, name)
            IN  /\ cursor' = [cursor EXCEPT ![s] = scan.cursor]
                /\ IF scan.st = "invalid"
                   THEN /\ last' = [last EXCEPT !.call[s] = Returned("invalid_data")]
                        /\ UNCHANGED vaults
                   ELSE IF scan.st = "eof"
                   THEN /\ vaults' = [vaults EXCEPT ![s] = RemoveFirst(@, name)]
                        /\ last' = [call  |-> [last.call EXCEPT ![s] = Returned("true")],
                                    acked |-> last.acked \ {name}]
                   ELSE /\ vaults' = [vaults EXCEPT ![s] = RemoveFirst(@, name)]
                        /\ last' = [last EXCEPT !.call[s] =
                                        Pending("remove", name,
                                                CalculateOffsetForSlot(scan.idx))]
    /\ UNCHANGED <<exists, file, stable, sess>>

\* remove by session s from write_all to Ok(true)
RaceRemoveWrite(s) ==
    /\ last.call[s].pc = "remove"
    /\ LET f1 == WriteAll(file, last.call[s].pos, Zeros(RECORD_SIZE))
       IN  /\ file' = f1
           /\ stable' = SyncData(stable, f1)
           /\ cursor' = [cursor EXCEPT ![s] = Len(f1)]
           /\ last' = [call  |-> [last.call EXCEPT ![s] = Returned("true")],
                       acked |-> last.acked \ {last.call[s].name}]
    /\ UNCHANGED <<exists, sess, vaults>>

\* session s drops its VaultIndex
RaceDrop(s) ==
    /\ sess[s] = "open" /\ last.call[s].pc = "idle"
    /\ sess' = [sess EXCEPT ![s] = "closed"]
    /\ vaults' = [vaults EXCEPT ![s] = <<>>]
    /\ cursor' = [cursor EXCEPT ![s] = 0]
    /\ last' = [last EXCEPT !.call[s] = Returned("ok")]
    /\ UNCHANGED <<exists, file, stable>>

RaceNext ==
    \/ \E s \in Sessions : RaceOpen(s)
    \/ \E s \in Sessions, name \in RaceNames : RaceAddScan(s, name)
    \/ \E s \in Sessions : RaceAddWrite(s)
    \/ \E s \in Sessions, name \in RaceNames : RaceRemoveScan(s, name)
    \/ \E s \in Sessions : RaceRemoveWrite(s)
    \/ \E s \in Sessions : RaceDrop(s)

SpecRace == RaceInit /\ [][RaceNext]_vars

\* a name whose add returned Ok, not removed since, that an open of the file
\* does not list
LostName == \E name \in last.acked : ~In(Reopen.names, name)

\* a name that an open of the file lists twice
TwiceListed == ~NoRepeat(Reopen.names)

\* C23: (as the claim states it) a state in which a name whose add returned
\* success is missing from a later open, or a later open lists a name
\* twice, is reached only when two sessions have worked on the file: with a
\* single session no such state is reachable.
C23_SingleSessionKeepsWrites ==
    (LostName \/ TwiceListed) => \A s \in Sessions : sess[s] # "never"

====
